---------------------------- MODULE Spec2Model ----------------------------
(***************************************************************************)
(* Trade-Simulator: the WebSocketManager ingestion adapter                 *)
(* (Frontend/src/lib/websocket.ts), the metrics calculator                 *)
(* (Frontend/src/lib/metrics-calculator.ts) and the tick handler of the    *)
(* TradingSimulator component (Frontend/src/components/                    *)
(* TradingSimulator.tsx).                                                  *)
(*                                                                         *)
(* JavaScript numbers are modelled as IEEE-like values: a finite           *)
(* fixed-point number with Scale units per 1, or NaN, or +/-Infinity.      *)
(* Strings that carry numbers are sequences of one-character strings, and  *)
(* parseFloat really parses them.                                          *)
(***************************************************************************)
EXTENDS Integers, Sequences, FiniteSets, TLC

(***************************************************************************)
(* Numbers                                                                 *)
(***************************************************************************)

\* Resolution of the finite numbers: a finite number n is the value n.v / Scale.
Scale == 10000

\* Number of decimal digits of Scale (Scale = 10^ScaleDigits).
ScaleDigits == 4

Fin(n) == [k |-> "fin", v |-> n]

NaN == [k |-> "nan", v |-> 0]

PosInf == [k |-> "inf", v |-> 1]

NegInf == [k |-> "inf", v |-> -1]

\* The integer i as a number.
Num(i) == Fin(i * Scale)

IsNaN(a) == a.k = "nan"

IsInf(a) == a.k = "inf"

\* Number.isFinite
IsFinite(a) == a.k = "fin"

Abs(i) == IF i < 0 THEN -i ELSE i

\* Sign used for the sign of a product or quotient (zero counts as positive).
SignOf(a) == IF a.v < 0 THEN -1 ELSE 1

\* |a| * |b| / Scale on non-negative fixed-point operands, truncated, split so
\* that no intermediate product leaves the integer range.
MulFix(a, b) ==
  LET ah == a \div Scale
      al == a % Scale
      bh == b \div Scale
      bl == b % Scale
  IN  ah * bh * Scale + ah * bl + al * bh + (al * bl) \div Scale

RECURSIVE FracDigits(_, _, _)
\* n decimal digits of r / b (0 <= r < b), by long division.
FracDigits(r, b, n) ==
  IF n = 0 THEN 0
  ELSE LET d == (r * 10) \div b
           r2 == (r * 10) % b
           rest == FracDigits(r2, b, n - 1)
           pow == IF n = 4 THEN 1000 ELSE IF n = 3 THEN 100 ELSE IF n = 2 THEN 10 ELSE 1
       IN  d * pow + rest

\* |a| / |b| on non-negative fixed-point operands, b > 0, truncated.
DivFix(a, b) == (a \div b) * Scale + FracDigits(a % b, b, ScaleDigits)

RECURSIVE ISqrt(_)
\* Integer square root.
ISqrt(n) ==
  IF n < 2 THEN n
  ELSE LET s == 2 * ISqrt(n \div 4)
           l == s + 1
       IN  IF l * l > n THEN s ELSE l

RECURSIVE SqrtDigits(_, _, _)
\* Extends the root y (with remainder r = n - y*y) by k more decimal digits.
SqrtDigits(y, r, k) ==
  IF k = 0 THEN y
  ELSE LET d == CHOOSE x \in 0..9 :
                  /\ (20 * y + x) * x <= 100 * r
                  /\ (x = 9 \/ (20 * y + x + 1) * (x + 1) > 100 * r)
       IN  SqrtDigits(10 * y + d, 100 * r - (20 * y + d) * d, k - 1)

\* sqrt on a non-negative fixed-point operand: floor(sqrt(a * Scale)).
SqrtFix(a) ==
  LET y == ISqrt(a)
  IN  SqrtDigits(y, a - y * y, ScaleDigits \div 2)

FNeg(a) == IF IsNaN(a) THEN NaN ELSE [k |-> a.k, v |-> -a.v]

\* a + b
FAdd(a, b) ==
  IF IsNaN(a) \/ IsNaN(b) THEN NaN
  ELSE IF IsInf(a) /\ IsInf(b) THEN (IF a.v = b.v THEN a ELSE NaN)
  ELSE IF IsInf(a) THEN a
  ELSE IF IsInf(b) THEN b
  ELSE Fin(a.v + b.v)

\* a - b
FSub(a, b) == FAdd(a, FNeg(b))

\* a * b
FMul(a, b) ==
  IF IsNaN(a) \/ IsNaN(b) THEN NaN
  ELSE IF IsInf(a) \/ IsInf(b) THEN
         (IF a.v = 0 \/ b.v = 0 THEN NaN
          ELSE IF SignOf(a) * SignOf(b) > 0 THEN PosInf ELSE NegInf)
  ELSE Fin(SignOf(a) * SignOf(b) * MulFix(Abs(a.v), Abs(b.v)))

\* a / b
FDiv(a, b) ==
  IF IsNaN(a) \/ IsNaN(b) THEN NaN
  ELSE IF IsInf(a) /\ IsInf(b) THEN NaN
  ELSE IF IsInf(a) THEN (IF SignOf(a) * SignOf(b) > 0 THEN PosInf ELSE NegInf)
  ELSE IF IsInf(b) THEN Fin(0)
  ELSE IF b.v = 0 THEN
         (IF a.v = 0 THEN NaN ELSE IF a.v > 0 THEN PosInf ELSE NegInf)
  ELSE Fin(SignOf(a) * SignOf(b) * DivFix(Abs(a.v), Abs(b.v)))

\* Math.sqrt
FSqrt(a) ==
  IF IsNaN(a) THEN NaN
  ELSE IF a.v < 0 THEN NaN
  ELSE IF IsInf(a) THEN PosInf
  ELSE Fin(SqrtFix(a.v))

\* The order of two non-NaN numbers as integers to compare.
Rank(a) == IF IsInf(a) THEN a.v * 2000000000 ELSE a.v

\* a > b (false when either is NaN)
FGt(a, b) == ~IsNaN(a) /\ ~IsNaN(b) /\ Rank(a) > Rank(b)

\* a < b (false when either is NaN)
FLt(a, b) == FGt(b, a)

\* a >= b (false when either is NaN)
FGe(a, b) == ~IsNaN(a) /\ ~IsNaN(b) /\ Rank(a) >= Rank(b)

\* Math.min(a, b)
FMin(a, b) == IF IsNaN(a) \/ IsNaN(b) THEN NaN ELSE IF Rank(a) <= Rank(b) THEN a ELSE b

\* Math.max(a, b)
FMax(a, b) == IF IsNaN(a) \/ IsNaN(b) THEN NaN ELSE IF Rank(a) >= Rank(b) THEN a ELSE b

\* JavaScript truthiness of a number: 0 and NaN are falsy.
Truthy(a) == ~IsNaN(a) /\ ~(IsFinite(a) /\ a.v = 0)

\* a || b on numbers
FOr(a, b) == IF Truthy(a) THEN a ELSE b


(***************************************************************************)
(* Strings and parseFloat                                                  *)
(***************************************************************************)

Digits == {"0", "1", "2", "3", "4", "5", "6", "7", "8", "9"}

DigitVal(c) ==
  CASE c = "0" -> 0 [] c = "1" -> 1 [] c = "2" -> 2 [] c = "3" -> 3 [] c = "4" -> 4
    [] c = "5" -> 5 [] c = "6" -> 6 [] c = "7" -> 7 [] c = "8" -> 8 [] c = "9" -> 9

RECURSIVE DigitRun(_, _)
\* Number of consecutive digits of s from position i on.
DigitRun(s, i) ==
  IF i > Len(s) THEN 0
  ELSE IF s[i] \in Digits THEN 1 + DigitRun(s, i + 1)
  ELSE 0

RECURSIVE DigitsValue(_, _, _)
\* The integer written by the n digits of s starting at position i.
DigitsValue(s, i, n) ==
  IF n = 0 THEN 0
  ELSE DigitsValue(s, i, n - 1) * 10 + DigitVal(s[i + n - 1])

RECURSIVE FracValue(_, _, _, _)
\* The fraction written by the n digits of s starting at position i, in
\* fixed-point units, where w is the unit of the first digit.
FracValue(s, i, n, w) ==
  IF n = 0 \/ w = 0 THEN 0
  ELSE DigitVal(s[i]) * w + FracValue(s, i + 1, n - 1, w \div 10)

InfinityLit == <<"I", "n", "f", "i", "n", "i", "t", "y">>

\* parseFloat(s): optional sign, then "Infinity" or decimal digits with an
\* optional fraction; characters after the numeral are ignored; NaN when there
\* is no numeral. (Exponents and leading white space are not modelled.)
parseFloat(s) ==
  LET signed == Len(s) >= 1 /\ s[1] \in {"+", "-"}
      neg == signed /\ s[1] = "-"
      p == IF signed THEN 2 ELSE 1
      isInfLit == Len(s) >= p + 7 /\ SubSeq(s, p, p + 7) = InfinityLit
      n1 == DigitRun(s, p)
      dot == p + n1 <= Len(s) /\ s[p + n1] = "."
      n2 == IF dot THEN DigitRun(s, p + n1 + 1) ELSE 0
      mag == DigitsValue(s, p, n1) * Scale + FracValue(s, p + n1 + 1, n2, Scale \div 10)
  IN  IF isInfLit THEN (IF neg THEN NegInf ELSE PosInf)
      ELSE IF n1 + n2 = 0 THEN NaN
      ELSE Fin(IF neg THEN -mag ELSE mag)

(***************************************************************************)
(* OrderbookData (types/trading.ts)                                        *)
(*                                                                         *)
(* A decoded JSON document: fields is the set of properties the document   *)
(* has; asks and bids are sequences of <<price, size>> pairs of strings    *)
(* (the empty sequence when the property is absent).                       *)
(***************************************************************************)

OrderbookData(a, b) == [fields |-> {"asks", "bids"}, asks |-> a, bids |-> b]

\* A JSON document that parses but has neither asks nor bids, such as {}.
EmptyObject == [fields |-> {}, asks |-> <<>>, bids |-> <<>>]

\* level[0] and level[1] of a [price, size] pair
Price(level) == parseFloat(level[1])

Size(level) == parseFloat(level[2])

Min(a, b) == IF a < b THEN a ELSE b

\* Array.prototype.slice(0, n)
Slice0(arr, n) == SubSeq(arr, 1, Min(n, Len(arr)))

RECURSIVE SumSize(_, _)
\* levels.reduce((sum, level) => sum + parseFloat(level[1]), 0), from index i
SumSize(levels, i) ==
  IF i = 0 THEN Num(0)
  ELSE FAdd(SumSize(levels, i - 1), Size(levels[i]))

RECURSIVE SumNotional(_, _)
\* levels.reduce((sum, l) => sum + parseFloat(l[0]) * parseFloat(l[1]), 0)
SumNotional(levels, i) ==
  IF i = 0 THEN Num(0)
  ELSE FAdd(SumNotional(levels, i - 1), FMul(Price(levels[i]), Size(levels[i])))

(***************************************************************************)
(* metrics-calculator.ts                                                   *)
(***************************************************************************)

\* Number of levels of each side that calculateSlippage reads.
TopLevels == 5

\* calculateSlippage(orderbook, quantity)
calculateSlippage(orderbook, quantity) ==
  LET topAsks == Slice0(orderbook.asks, TopLevels)
      topBids == Slice0(orderbook.bids, TopLevels)
      askVolume == SumSize(topAsks, Len(topAsks))
      bidVolume == SumSize(topBids, Len(topBids))
      imbalance == FDiv(FSub(bidVolume, askVolume), FAdd(bidVolume, askVolume))
      baseSlippage == Fin(500)                       \* 0.05
      sizeImpact == FMul(Fin(10), FSqrt(quantity))   \* 0.001 * Math.sqrt(quantity)
      imbalanceEffect == FMul(Fin(-1000), imbalance) \* -0.1 * imbalance
  IN  FAdd(FAdd(baseSlippage, sizeImpact), imbalanceEffect)

\* Own properties of the feeRates object literal.
FeeRateTiers == {"tier1", "tier2", "tier3"}

\* Properties every object literal inherits from Object.prototype; looking one
\* up yields a function, which is truthy and converts to the number NaN.
ObjectPrototypeProps == {"constructor", "toString", "valueOf", "hasOwnProperty"}

\* feeRates[feeTier] || feeRates.tier1, as the number the product converts it to
FeeRate(feeTier) ==
  CASE feeTier = "tier1" -> Fin(10)   \* 0.001
    [] feeTier = "tier2" -> Fin(8)    \* 0.0008
    [] feeTier = "tier3" -> Fin(5)    \* 0.0005
    [] feeTier \in ObjectPrototypeProps -> NaN
    [] OTHER -> Fin(10)

\* calculateFees(quantity, feeTier)
calculateFees(quantity, feeTier) == FMul(quantity, FeeRate(feeTier))

\* calculateEnhancedMarketImpact(orderbook, quantity, volatility)
calculateEnhancedMarketImpact(orderbook, quantity, volatility) ==
  LET bestAsk == Price(orderbook.asks[1])
      bestBid == Price(orderbook.bids[1])
      midPrice == FDiv(FAdd(bestAsk, bestBid), Num(2))
      bids == orderbook.bids
      asks == orderbook.asks
      bidLiquidity == SumNotional(bids, Len(bids))
      askLiquidity == SumNotional(asks, Len(asks))
      totalLiquidity == FAdd(bidLiquidity, askLiquidity)
      bidDepth == SumSize(bids, Len(bids))
      askDepth == SumSize(asks, Len(asks))
      totalDepth == FAdd(bidDepth, askDepth)
      relativeOrderSize == IF FGt(totalDepth, Num(0)) THEN FDiv(quantity, totalDepth)
                           ELSE Num(0)
      permanentImpactFactor == FMul(Fin(1000), volatility)   \* 0.1 * volatility
      temporaryImpactFactor == Fin(500)                      \* 0.05
      permanentImpact == FMul(FMul(permanentImpactFactor, relativeOrderSize), midPrice)
      temporaryImpact ==
        FMul(FMul(FMul(temporaryImpactFactor, FSqrt(relativeOrderSize)), midPrice),
             FAdd(Num(1), volatility))
      marketImpact == FAdd(permanentImpact, temporaryImpact)
  IN  FMul(FDiv(marketImpact, midPrice), Num(100))

\* The maker/taker estimate with one step changed: without reclamp the 0.15
\* added at high volatility is not clamped to 1 again; without makerFromFinal
\* the maker share is taken from the ratio before that addition.
estimateVariant(orderbook, quantity, orderType, volatility, reclamp, makerFromFinal) ==
  LET bids == orderbook.bids
      asks == orderbook.asks
      bestAsk == Price(asks[1])
      bestBid == Price(bids[1])
      midPrice == FDiv(FAdd(bestAsk, bestBid), Num(2))
      bidDepth == SumSize(bids, Len(bids))
      askDepth == SumSize(asks, Len(asks))
      relSpread == IF FGt(midPrice, Num(0)) THEN FDiv(FSub(bestAsk, bestBid), midPrice)
                   ELSE Num(0)
      relOrderSize == IF FGt(FMul(askDepth, midPrice), Num(0))
                      THEN FDiv(quantity, FMul(askDepth, midPrice))
                      ELSE Num(1)
      baseRate == IF orderType = "market" THEN Fin(9500) ELSE Fin(5000)
      sizeImpact == FMin(Fin(2500), FMul(relOrderSize, Fin(5000)))
      volatilityImpact == FMin(Fin(1500), FMul(volatility, Fin(3000)))
      spreadImpact == FMax(Fin(-2000), FMul(FNeg(relSpread), Num(20)))
      depthImbalance == FDiv(FSub(bidDepth, askDepth), FOr(FAdd(bidDepth, askDepth), Num(1)))
      balanceImpact == FMin(FMax(Fin(-1000), FMul(depthImbalance, Fin(1000))), Fin(1000))
      takerRatio0 ==
        FMin(Num(1),
             FMax(Num(0),
                  FAdd(FAdd(FAdd(FAdd(baseRate, sizeImpact), volatilityImpact),
                            spreadImpact),
                       balanceImpact)))
      raised == FAdd(takerRatio0, Fin(1500))
      takerRatio == IF FGt(volatility, Fin(8000))
                    THEN (IF reclamp THEN FMin(Num(1), raised) ELSE raised)
                    ELSE takerRatio0
      takerProportion == FMul(takerRatio, Num(100))
      makerProportion == IF makerFromFinal THEN FSub(Num(100), takerProportion)
                         ELSE FSub(Num(100), FMul(takerRatio0, Num(100)))
  IN  [makerProportion |-> makerProportion, takerProportion |-> takerProportion]

\* An estimate whose maker share ignores the addition at high volatility.
estimateMakerBeforeRaise(orderbook, quantity, orderType, volatility) ==
  estimateVariant(orderbook, quantity, orderType, volatility, TRUE, FALSE)

\* An estimate that does not clamp again after the addition at high volatility.
estimateNoReclamp(orderbook, quantity, orderType, volatility) ==
  estimateVariant(orderbook, quantity, orderType, volatility, FALSE, TRUE)

\* estimateImprovedMakerTakerProportion(orderbook, quantity, orderType, volatility)
estimateImprovedMakerTakerProportion(orderbook, quantity, orderType, volatility) ==
  LET bids == orderbook.bids
      asks == orderbook.asks
      bestAsk == Price(asks[1])
      bestBid == Price(bids[1])
      spread == FSub(bestAsk, bestBid)
      midPrice == FDiv(FAdd(bestAsk, bestBid), Num(2))
      bidDepth == SumSize(bids, Len(bids))
      askDepth == SumSize(asks, Len(asks))
      relSpread == IF FGt(midPrice, Num(0)) THEN FDiv(spread, midPrice) ELSE Num(0)
      relOrderSize == IF FGt(FMul(askDepth, midPrice), Num(0))
                      THEN FDiv(quantity, FMul(askDepth, midPrice))
                      ELSE Num(1)
      baseRate == IF orderType = "market" THEN Fin(9500) ELSE Fin(5000)
      sizeImpact == FMin(Fin(2500), FMul(relOrderSize, Fin(5000)))
      volatilityImpact == FMin(Fin(1500), FMul(volatility, Fin(3000)))
      spreadImpact == FMax(Fin(-2000), FMul(FNeg(relSpread), Num(20)))
      depthImbalance == FDiv(FSub(bidDepth, askDepth), FOr(FAdd(bidDepth, askDepth), Num(1)))
      balanceImpact == FMin(FMax(Fin(-1000), FMul(depthImbalance, Fin(1000))), Fin(1000))
      takerRatio0 ==
        FMin(Num(1),
             FMax(Num(0),
                  FAdd(FAdd(FAdd(FAdd(baseRate, sizeImpact), volatilityImpact),
                            spreadImpact),
                       balanceImpact)))
      takerRatio == IF FGt(volatility, Fin(8000))
                    THEN FMin(Num(1), FAdd(takerRatio0, Fin(1500)))
                    ELSE takerRatio0
      takerProportion == FMul(takerRatio, Num(100))
      makerProportion == FSub(Num(100), takerProportion)
  IN  [makerProportion |-> makerProportion, takerProportion |-> takerProportion]

\* Whether reading orderbook.asks[0][0] and orderbook.bids[0][0] raises a
\* TypeError: the property is absent (undefined[0]) or the array is empty
\* (asks[0] is undefined, so asks[0][0] reads a property of undefined).
BestPriceReadThrows(orderbook) ==
  \/ "asks" \notin orderbook.fields
  \/ orderbook.asks = <<>>
  \/ "bids" \notin orderbook.fields
  \/ orderbook.bids = <<>>

\* A bundle whose slippage and net cost carry the value of Math.random().
MetricsBundleNoisy(params, random) ==
  LET slippage == FAdd(calculateSlippage(params.orderbook, params.quantity), random)
      fees == calculateFees(params.quantity, params.feeTier)
      marketImpact == calculateEnhancedMarketImpact(params.orderbook, params.quantity,
                                                    params.volatility)
      split == estimateImprovedMakerTakerProportion(params.orderbook, params.quantity,
                                                    params.orderType, params.volatility)
  IN  [slippage |-> slippage,
       fees |-> fees,
       marketImpact |-> marketImpact,
       netCost |-> FAdd(FAdd(slippage, fees), marketImpact),
       makerProportion |-> split.makerProportion,
       takerProportion |-> split.takerProportion,
       internalLatency |-> FAdd(FMul(random, Num(30)), Num(10))]

\* The bundle calculateMetrics returns; random is the value of Math.random().
MetricsBundle(params, random) ==
  LET orderbook == params.orderbook
      quantity == params.quantity
      slippage == calculateSlippage(orderbook, quantity)
      fees == calculateFees(quantity, params.feeTier)
      marketImpact == calculateEnhancedMarketImpact(orderbook, quantity, params.volatility)
      netCost == FAdd(FAdd(FDiv(FMul(quantity, slippage), Num(100)), fees),
                      FDiv(FMul(quantity, marketImpact), Num(100)))
      split == estimateImprovedMakerTakerProportion(orderbook, quantity,
                                                    params.orderType, params.volatility)
      internalLatency == FAdd(FMul(random, Num(30)), Num(10))
  IN  [slippage |-> slippage,
       fees |-> fees,
       marketImpact |-> marketImpact,
       netCost |-> netCost,
       makerProportion |-> split.makerProportion,
       takerProportion |-> split.takerProportion,
       internalLatency |-> internalLatency]

\* calculateMetrics that defaults the prices of an empty side instead of throwing.
calculateMetricsDefaulted(params, random) ==
  IF BestPriceReadThrows(params.orderbook)
  THEN [threw |-> FALSE,
        ret |-> <<[slippage |-> NaN, fees |-> calculateFees(params.quantity, params.feeTier),
                   marketImpact |-> Num(0), netCost |-> NaN, makerProportion |-> Num(0),
                   takerProportion |-> Num(100),
                   internalLatency |-> FAdd(FMul(random, Num(30)), Num(10))]>>]
  ELSE [threw |-> FALSE, ret |-> <<MetricsBundle(params, random)>>]

\* calculateMetrics(params): either an exception is thrown and nothing is
\* returned (ret is empty), or ret holds the returned SimulationResults.
calculateMetrics(params, random) ==
  IF BestPriceReadThrows(params.orderbook)
  THEN [threw |-> TRUE, ret |-> <<>>]
  ELSE [threw |-> FALSE, ret |-> <<MetricsBundle(params, random)>>]

(***************************************************************************)
(* Bounds and inputs                                                       *)
(***************************************************************************)

\* connect() calls made on the manager (each creates at most one transport).
MaxConnects == 2

\* Messages the transports receive, over all transports.
MaxMsgs == 2

Socks == 1..MaxConnects

\* this.socket === null
NoSocket == 0

\* The endpoint TradingSimulator connects to, and a string that is no URL, for
\* which the WebSocket constructor throws a SyntaxError.
Urls == {"wss://ws.gomarket-cpp.goquant.io/ws/l2-orderbook/okx/BTC-USDT-SWAP", "not a url"}

ConstructorThrows(url) == url = "not a url"

\* Level strings used by the messages of the feed.
Str0 == <<"0">>

Str1 == <<"1">>

Str2 == <<"2">>

Str3 == <<"3">>

Lvl(price, size) == <<price, size>>

\* A book that satisfies the snapshot invariants.
BookA == OrderbookData(<<Lvl(Str2, Str1), Lvl(Str3, Str1)>>, <<Lvl(Str1, Str1)>>)

\* Crossed: best ask 1 < best bid 2.
BookCrossed == OrderbookData(<<Lvl(Str1, Str1)>>, <<Lvl(Str2, Str1)>>)

\* The feed reports an empty ask side.
BookEmptyAsks == OrderbookData(<<>>, <<Lvl(Str1, Str1)>>)

\* event.data of a message: wellFormed tells whether the text is JSON, and doc
\* is the document it encodes.
Json(doc) == [wellFormed |-> TRUE, doc |-> doc]

\* A text that is not JSON.
Garbage == [wellFormed |-> FALSE, doc |-> EmptyObject]

\* The messages the feed sends.
Messages == {Garbage, Json(BookA), Json(BookCrossed), Json(BookEmptyAsks)}

\* JSON.parse(event.data) as OrderbookData: throws on text that is not JSON;
\* the cast checks nothing.
JSONParse(raw) ==
  IF raw.wellFormed THEN [threw |-> FALSE, value |-> raw.doc]
  ELSE [threw |-> TRUE, value |-> EmptyObject]

\* performance.now() - startTime around JSON.parse, in ms: 0.1 ms.
Times == {Fin(1000)}

\* Values of Math.random().
Randoms == {Fin(0), Fin(5000)}

\* The order parameters the inputs of the component can be set to.
MkParams(q, t, v, f) ==
  [quantity |-> q, orderType |-> t, volatility |-> v, feeTier |-> f, exchange |-> "OKX"]

\* useState defaults: quantity 100, market, volatility 0.5, tier1.
DefaultParams == MkParams(Num(100), "market", Fin(5000), "tier1")

\* The inputs offer the order type market only; quantity, volatility and fee
\* tier can be changed at any time.
ParamChoices == {DefaultParams, MkParams(Num(1), "market", Fin(9000), "tier3")}

(***************************************************************************)
(* State                                                                   *)
(***************************************************************************)

VARIABLES
  socket,        \* WebSocketManager.socket: NoSocket or the transport it holds
  created,       \* transports created so far (they are numbered 1..created)
  connects,      \* connect() calls so far
  readyState,    \* WebSocket.readyState of every transport
  closeCalls,    \* how often close() was called on every transport
  onmessage,     \* whether the onmessage handler is installed on a transport
  inbox,         \* messages received by a transport and not yet dispatched
  arrived,       \* messages received so far, over all transports
  pc,            \* "idle", or "handed": the onmessage handler is about to call onMessage
  cur,           \* the tick the running handler works on
  orderbookData, \* TradingSimulator state: <<>> (null) or <<snapshot>>
  latency,       \* TradingSimulator state
  results,       \* TradingSimulator state: <<>> (null) or <<bundle>>
  connected,     \* TradingSimulator state
  loading,       \* TradingSimulator state
  params,        \* TradingSimulator state: quantity, orderType, volatility, feeTier
  captured,      \* the parameters in the closure of the onMessage callback
  last,          \* the last handler or call that ran, and the callbacks it invoked
  log,           \* the ticks dispatched so far, with their outcome
  calcIn,        \* input of a stand-alone calculateMetrics call, <<>> if none
  calcOut        \* its outcome, <<>> if it was not made yet

vars ==
  <<socket, created, connects, readyState, closeCalls, onmessage, inbox, arrived, pc, cur,
    orderbookData, latency, results, connected, loading, params, captured, last, log,
    calcIn, calcOut>>

managerVars == <<socket, created, connects, readyState, closeCalls, onmessage>>

uiVars == <<orderbookData, latency, results, connected, loading, params, captured>>

calcVars == <<calcIn, calcOut>>

NoTick == [sock |-> NoSocket, n |-> 0, data |-> EmptyObject, processingTime |-> Fin(0)]

Last(op, s, calls) == [op |-> op, sock |-> s, calls |-> calls]

Called(name) == \E i \in 1..Len(last.calls) : last.calls[i] = name

\* The state after TradingSimulator.handleConnect has constructed the manager
\* (setLoading(true), new WebSocketManager(options)) and before connect().
InitSystem ==
  /\ socket = NoSocket
  /\ created = 0
  /\ connects = 0
  /\ readyState = [s \in Socks |-> "NONE"]
  /\ closeCalls = [s \in Socks |-> 0]
  /\ onmessage = [s \in Socks |-> FALSE]
  /\ inbox = [s \in Socks |-> <<>>]
  /\ arrived = 0
  /\ pc = "idle"
  /\ cur = NoTick
  /\ orderbookData = <<>>
  /\ latency = Fin(0)
  /\ results = <<>>
  /\ connected = FALSE
  /\ loading = TRUE
  /\ params = DefaultParams
  /\ captured = params
  /\ last = Last("constructor", NoSocket, <<>>)
  /\ log = <<>>

Init ==
  /\ InitSystem
  /\ calcIn = <<>>
  /\ calcOut = <<>>

(***************************************************************************)
(* websocket.ts                                                            *)
(***************************************************************************)

\* No JavaScript task is running: handlers run to completion, one at a time.
EventLoopIdle == pc = "idle"

\* WebSocket.close() on transport s: an open or connecting transport starts
\* closing; on a closing or closed one the call has no effect.
CloseReadyState(rs, s) ==
  [rs EXCEPT ![s] = IF @ \in {"CONNECTING", "OPEN"} THEN "CLOSING" ELSE @]

\* connect() that does not tear the held transport down.
ConnectNeverCloses(s) == FALSE

\* if (this.socket) in connect()
ConnectClosesHeld(s) == s # NoSocket

\* isConnected() that only looks at the handle.
isConnectedHandleOnly == socket # NoSocket

\* WebSocketManager.isConnected()
isConnected == socket # NoSocket /\ readyState[socket] = "OPEN"

\* WebSocketManager.connect(url)
Connect(url) ==
  /\ EventLoopIdle
  /\ connects < MaxConnects
  /\ connects' = connects + 1
  /\ LET held == ConnectClosesHeld(socket)
         rs1 == IF held THEN CloseReadyState(readyState, socket) ELSE readyState
         cc1 == IF held THEN [closeCalls EXCEPT ![socket] = @ + 1] ELSE closeCalls
         new == created + 1
     IN  IF ConstructorThrows(url)
         THEN /\ readyState' = rs1
              /\ closeCalls' = cc1
              /\ UNCHANGED <<socket, created, onmessage>>
              \* catch: options.onError(new Event('error'))
              /\ connected' = FALSE
              /\ loading' = FALSE
              /\ last' = Last("connect", socket, <<"onError">>)
         ELSE /\ created' = new
              /\ socket' = new
              /\ readyState' = [rs1 EXCEPT ![new] = "CONNECTING"]
              /\ closeCalls' = cc1
              /\ onmessage' = [onmessage EXCEPT ![new] = TRUE]
              /\ UNCHANGED <<connected, loading>>
              /\ last' = Last("connect", new, <<>>)
  /\ UNCHANGED <<inbox, arrived, pc, cur, orderbookData, latency, results, params, captured,
                 log, calcVars>>

\* disconnect() that keeps the handle.
DisconnectKeepsSocket(s) == s

\* disconnect() that drops the handle without closing the transport.
DisconnectNeverCloses(s) == FALSE

\* What disconnect() leaves in this.socket.
DisconnectSocket(s) == NoSocket

\* Whether disconnect() calls close() on the transport it holds.
DisconnectCloses(s) == s # NoSocket

\* WebSocketManager.disconnect()
Disconnect ==
  /\ EventLoopIdle
  /\ IF socket # NoSocket
     THEN /\ readyState' = IF DisconnectCloses(socket)
                           THEN CloseReadyState(readyState, socket) ELSE readyState
          /\ closeCalls' = IF DisconnectCloses(socket)
                           THEN [closeCalls EXCEPT ![socket] = @ + 1] ELSE closeCalls
          /\ socket' = DisconnectSocket(socket)
     ELSE UNCHANGED <<socket, readyState, closeCalls>>
  /\ last' = Last("disconnect", socket, <<>>)
  /\ UNCHANGED <<created, connects, onmessage, inbox, arrived, pc, cur, uiVars, log, calcVars>>

\* The transport s finishes its handshake: socket.onopen -> options.onOpen.
Open(s) ==
  /\ EventLoopIdle
  /\ readyState[s] = "CONNECTING"
  /\ readyState' = [readyState EXCEPT ![s] = "OPEN"]
  /\ connected' = TRUE
  /\ loading' = FALSE
  /\ last' = Last("onopen", s, <<"onOpen">>)
  /\ UNCHANGED <<socket, created, connects, closeCalls, onmessage, inbox, arrived, pc, cur,
                 orderbookData, latency, results, params, captured, log, calcVars>>

\* The open transport s receives the message raw from the network.
Arrive(s, raw) ==
  /\ readyState[s] = "OPEN"
  /\ arrived < MaxMsgs
  /\ arrived' = arrived + 1
  /\ inbox' = [inbox EXCEPT ![s] = Append(@, [n |-> arrived + 1, raw |-> raw])]
  /\ UNCHANGED <<managerVars, pc, cur, uiVars, last, log, calcVars>>

\* A catch block that gives the connection up.
CatchClosesTransport(rs, s) == [rs EXCEPT ![s] = "CLOSING"]

\* The effect of the catch block of the onmessage handler on the transports: it
\* only writes to the console.
CatchReadyState(rs, s) == rs

\* The position in the inbox of the message the next message event carries.
NextMessage(box) == 1

\* socket.onmessage up to the call of options.onMessage: the browser fires
\* message events only on an open transport, in the order of arrival.
OnMessageEvent(s) ==
  /\ EventLoopIdle
  /\ readyState[s] = "OPEN"
  /\ onmessage[s]
  /\ inbox[s] # <<>>
  /\ LET i == NextMessage(inbox[s])
         e == inbox[s][i]
         parsed == JSONParse(e.raw)
     IN  /\ inbox' = [inbox EXCEPT ![s] = SubSeq(@, 1, i - 1) \o SubSeq(@, i + 1, Len(@))]
         /\ IF parsed.threw
            THEN /\ pc' = "idle"
                 /\ cur' = NoTick
                 /\ readyState' = CatchReadyState(readyState, s)
                 /\ log' = Append(log, [n |-> e.n, sock |-> s, out |-> "decodeError"])
                 /\ last' = Last("onmessage", s, <<>>)
            ELSE /\ \E t \in Times :
                      cur' = [sock |-> s, n |-> e.n, data |-> parsed.value,
                              processingTime |-> t]
                 /\ pc' = "handed"
                 /\ readyState' = readyState
                 /\ log' = Append(log, [n |-> e.n, sock |-> s, out |-> "handed"])
                 /\ last' = Last("onmessage", s, <<"onMessage">>)
  /\ UNCHANGED <<socket, created, connects, closeCalls, onmessage, arrived, uiVars, calcVars>>

\* A close handler that opens another transport by itself.
CreatedAfterCloseRetry(c) == IF c < MaxConnects THEN c + 1 ELSE c

\* The transports created once socket.onerror and socket.onclose have run: the
\* handlers only call options.onError and options.onClose.
CreatedAfterClose(c) == c

\* The transport s closes without an error: socket.onclose -> options.onClose.
\* Messages it had received and not dispatched are dropped.
CloseEvent(s) ==
  /\ EventLoopIdle
  /\ readyState[s] \in {"OPEN", "CLOSING"}
  /\ readyState' = [readyState EXCEPT ![s] = "CLOSED"]
  /\ connected' = FALSE
  /\ loading' = FALSE
  /\ last' = Last("onclose", s, <<"onClose">>)
  /\ inbox' = [inbox EXCEPT ![s] = <<>>]
  /\ created' = CreatedAfterClose(created)
  /\ UNCHANGED <<socket, connects, closeCalls, onmessage, arrived, pc, cur,
                 orderbookData, latency, results, params, captured, log, calcVars>>

\* The connection of transport s fails: the browser closes it and fires error
\* and then close in one task: socket.onerror -> options.onError, then
\* socket.onclose -> options.onClose.
TransportFail(s) ==
  /\ EventLoopIdle
  /\ readyState[s] \in {"CONNECTING", "OPEN", "CLOSING"}
  /\ readyState' = [readyState EXCEPT ![s] = "CLOSED"]
  /\ connected' = FALSE
  /\ loading' = FALSE
  /\ last' = Last("onerror", s, <<"onError", "onClose">>)
  /\ inbox' = [inbox EXCEPT ![s] = <<>>]
  /\ created' = CreatedAfterClose(created)
  /\ UNCHANGED <<socket, connects, closeCalls, onmessage, arrived, pc, cur,
                 orderbookData, latency, results, params, captured, log, calcVars>>

(***************************************************************************)
(* TradingSimulator.tsx                                                    *)
(***************************************************************************)

\* The MetricsParams handleWebSocketMessage passes for the snapshot data: the
\* parameters are those of the closure the manager was constructed with.
TickParams(data) ==
  [orderbook |-> data, quantity |-> captured.quantity, orderType |-> captured.orderType,
   volatility |-> captured.volatility, feeTier |-> captured.feeTier,
   exchange |-> captured.exchange]

\* A handler that keeps the first bundle it stored.
StoredResultsStale(ret, old) == IF old = <<>> THEN ret ELSE old

\* What setResults stores for a returned bundle.
StoredResults(ret, old) == ret

\* handleWebSocketMessage(data, processingTime), called by the onmessage handler
\* inside its try block: an exception of calculateMetrics ends up in the catch
\* block of the handler, after the first two state updates.
HandleWebSocketMessage ==
  /\ pc = "handed"
  /\ orderbookData' = <<cur.data>>
  /\ latency' = cur.processingTime
  /\ \E r \in Randoms :
       \E res \in {calculateMetrics(TickParams(cur.data), r)} :
           IF res.threw
           THEN /\ results' = results
                /\ log' = [log EXCEPT ![Len(log)].out = "computeError"]
                /\ last' = Last("handleWebSocketMessage", cur.sock, <<"calculateMetrics">>)
           ELSE /\ results' = StoredResults(res.ret, results)
                /\ log' = [log EXCEPT ![Len(log)].out = "stored"]
                /\ last' = Last("handleWebSocketMessage", cur.sock,
                                <<"calculateMetrics", "setResults">>)
  /\ pc' = "idle"
  /\ cur' = NoTick
  /\ UNCHANGED <<managerVars, inbox, arrived, connected, loading, params, captured, calcVars>>

\* The user changes quantity, order type, volatility or fee tier.
ChangeParams(p) ==
  /\ EventLoopIdle
  /\ p # params
  /\ params' = p
  /\ UNCHANGED <<managerVars, inbox, arrived, pc, cur, orderbookData, latency, results,
                 connected, loading, captured, last, log, calcVars>>

Next ==
  \/ \E url \in Urls : Connect(url)
  \/ Disconnect
  \/ \E s \in Socks : Open(s)
  \/ \E s \in Socks, raw \in Messages : Arrive(s, raw)
  \/ \E s \in Socks : OnMessageEvent(s)
  \/ HandleWebSocketMessage
  \/ \E s \in Socks : CloseEvent(s)
  \/ \E s \in Socks : TransportFail(s)
  \/ \E p \in ParamChoices : ChangeParams(p)

Spec == Init /\ [][Next]_vars

(***************************************************************************)
(* calculateMetrics on its own: the inputs are drawn from bounded sets and *)
(* the one action calls the function.                                      *)
(***************************************************************************)

\* Levels per side of the enumerated books.
MaxLevels == 1

PriceStrs == {Str0, Str1, Str2}

SizeStrs == {Str0, Str1}

LevelSet == {Lvl(p, z) : p \in PriceStrs, z \in SizeStrs}

RECURSIVE SidesUpTo(_)
\* All sequences of at most n levels.
SidesUpTo(n) ==
  IF n = 0 THEN {<<>>}
  ELSE LET shorter == SidesUpTo(n - 1)
       IN  shorter \cup {Append(side, l) : side \in {x \in shorter : Len(x) = n - 1},
                                           l \in LevelSet}

Sides == SidesUpTo(MaxLevels)

\* Six levels per side; the sixth level is beyond the five calculateSlippage reads.
SixAsks ==
  <<Lvl(<<"1", "1">>, Str1), Lvl(<<"1", "2">>, Str0), Lvl(<<"1", "3">>, Str1),
    Lvl(<<"1", "4">>, Str0), Lvl(<<"1", "5">>, Str1), Lvl(<<"1", "6">>, <<"9">>)>>

SixBids ==
  <<Lvl(<<"1", "0">>, Str1), Lvl(<<"9">>, Str1), Lvl(<<"8">>, Str0),
    Lvl(<<"7">>, Str1), Lvl(<<"6">>, Str0), Lvl(<<"5">>, <<"4">>)>>

\* A deep book with fractional prices and sizes.
DeepAsks == <<Lvl(<<"1", "0", "1", ".", "5">>, <<"1", "0", "0">>),
              Lvl(<<"1", "0", "2">>, <<"5", "0", ".", "2", "5">>)>>

DeepBids == <<Lvl(<<"1", "0", "0", ".", "5">>, <<"1", "0", "0">>),
              Lvl(<<"9", "9">>, <<"4", "9", ".", "7", "5">>)>>

\* The enumerated books: every pair of sides of at most MaxLevels levels.
EnumBooks == {OrderbookData(a, b) : a \in Sides, b \in Sides}

\* A book whose sizes are all zero.
BookZeroSizes == OrderbookData(<<Lvl(Str2, Str0)>>, <<Lvl(Str1, Str0)>>)

BookSix == OrderbookData(SixAsks, SixBids)

BookDeep == OrderbookData(DeepAsks, DeepBids)

\* Books that are combined with every fee tier and every random value.
PickedBooks == {EmptyObject, BookA, BookCrossed, BookEmptyAsks, BookZeroSizes, BookSix}

CalcQuantities == {Num(1), Num(100)}

CalcOrderTypes == {"market", "limit"}

\* 0, 0.5 and 1
CalcVolatilities == {Fin(0), Fin(5000), Num(1)}

CalcFeeTiers == {"tier1", "tier2", "tier3", "vip", "constructor"}

CalcInput(ob, q, t, v, f, r) ==
  [params |-> [orderbook |-> ob, quantity |-> q, orderType |-> t, volatility |-> v,
               feeTier |-> f, exchange |-> "OKX"],
   random |-> r]

\* The calls made: every enumerated book with every quantity, order type and
\* volatility; the picked books also with every fee tier and random value; the
\* deep book also with quantity 1000.
CalcInputs ==
  {CalcInput(ob, q, t, v, "tier1", Fin(0)) :
     ob \in EnumBooks, q \in CalcQuantities, t \in CalcOrderTypes, v \in CalcVolatilities}
    \cup
  {CalcInput(ob, q, t, v, f, r) :
     ob \in PickedBooks, q \in CalcQuantities, t \in CalcOrderTypes, v \in CalcVolatilities,
     f \in CalcFeeTiers, r \in Randoms}
    \cup
  {CalcInput(BookDeep, q, t, v, f, r) :
     q \in CalcQuantities \cup {Num(1000)}, t \in CalcOrderTypes, v \in CalcVolatilities,
     f \in CalcFeeTiers, r \in Randoms}

InitMetrics ==
  /\ InitSystem
  /\ calcIn \in {<<i>> : i \in CalcInputs}
  /\ calcOut = <<>>

\* A caller calls calculateMetrics(params).
CallCalculateMetrics ==
  /\ calcIn # <<>>
  /\ calcOut = <<>>
  /\ calcOut' = <<calculateMetrics(calcIn[1].params, calcIn[1].random)>>
  /\ UNCHANGED <<managerVars, inbox, arrived, pc, cur, uiVars, last, log, calcIn>>

\* The caller calls calculateMetrics(params) once more with the same params
\* object; Math.random() returns what it returns on that call.
CallCalculateMetricsAgain ==
  /\ calcIn # <<>>
  /\ calcOut # <<>>
  /\ \E r \in Randoms :
       \E res \in {calculateMetrics(calcIn[1].params, r)} : calcOut' = <<res>>
  /\ UNCHANGED <<managerVars, inbox, arrived, pc, cur, uiVars, last, log, calcIn>>

NextMetrics ==
  \/ CallCalculateMetrics
  \/ CallCalculateMetricsAgain

SpecMetrics == InitMetrics /\ [][NextMetrics]_vars

(***************************************************************************)
(* Properties                                                              *)
(***************************************************************************)

RECURSIVE StrictlyAscending(_, _)
\* The prices of levels i.. are strictly ascending.
StrictlyAscending(levels, i) ==
  \/ i >= Len(levels)
  \/ /\ FLt(Price(levels[i]), Price(levels[i + 1]))
     /\ StrictlyAscending(levels, i + 1)

RECURSIVE StrictlyDescending(_, _)
\* The prices of levels i.. are strictly descending.
StrictlyDescending(levels, i) ==
  \/ i >= Len(levels)
  \/ /\ FGt(Price(levels[i]), Price(levels[i + 1]))
     /\ StrictlyDescending(levels, i + 1)

\* The snapshot invariants: asks ascending, bids descending, not crossed.
ValidSnapshot(doc) ==
  /\ doc.fields = {"asks", "bids"}
  /\ StrictlyAscending(doc.asks, 1)
  /\ StrictlyDescending(doc.bids, 1)
  /\ (doc.asks # <<>> /\ doc.bids # <<>>) => FGe(Price(doc.asks[1]), Price(doc.bids[1]))

\* Every numeric field of a bundle is finite.
AllFinite(b) ==
  /\ IsFinite(b.slippage)
  /\ IsFinite(b.fees)
  /\ IsFinite(b.marketImpact)
  /\ IsFinite(b.netCost)
  /\ IsFinite(b.makerProportion)
  /\ IsFinite(b.takerProportion)
  /\ IsFinite(b.internalLatency)

\* Every price and size of the levels is a finite number >= 0.
NonNegativeLevels(levels) ==
  \A i \in 1..Len(levels) :
    /\ IsFinite(Price(levels[i])) /\ Price(levels[i]).v >= 0
    /\ IsFinite(Size(levels[i])) /\ Size(levels[i]).v >= 0

\* C1: every transport the manager created and does not hold any more has had
\* close() called on it, so at most one transport it created has not had
\* close() called: connect() closes the held transport before it creates the
\* next one.
C1_AtMostOneLiveTransport ==
  /\ \A s \in 1..created : closeCalls[s] = 0 => s = socket
  /\ Cardinality({s \in 1..created : closeCalls[s] = 0}) <= 1

\* C1 witness: connect() has replaced a transport: the first one was closed
\* once and the manager holds the second one, not closed.
C1_Witness ==
  /\ last.op = "connect"
  /\ created = 2
  /\ socket = 2
  /\ closeCalls[1] = 1
  /\ closeCalls[2] = 0
  /\ readyState[1] = "CLOSING"

\* C2: a step of the onmessage handler whose message fails to parse closes no
\* transport, leaves the handler installed and the event loop free, so that a
\* pending message of the same transport can be dispatched next; and every
\* dispatched message that parses is handed to onMessage with its own document.
C2_DecodeFailureKeepsStream ==
  [][\A s \in Socks :
       OnMessageEvent(s) =>
         LET e == inbox[s][1]
         IN  IF ~e.raw.wellFormed
             THEN /\ readyState' = readyState
                  /\ closeCalls' = closeCalls
                  /\ onmessage'[s]
                  /\ pc' = "idle"
                  /\ readyState'[s] = "OPEN"
                  /\ inbox'[s] = Tail(inbox[s])
             ELSE /\ pc' = "handed"
                  /\ cur'.sock = s
                  /\ cur'.n = e.n
                  /\ cur'.data = e.raw.doc
                  /\ Called("onMessage")']_vars

\* C2 witness: on one transport a message failed to parse and the next message
\* was delivered and its result stored.
C2_Witness ==
  /\ Len(log) = 2
  /\ log[1].sock = log[2].sock
  /\ log[1].out = "decodeError"
  /\ log[2].out = "stored"
  /\ log[2].n = log[1].n + 1

\* C3 (as claimed): when the onmessage handler has run on a message that is
\* malformed or is no valid snapshot, onError was invoked and onMessage was not.
C3_DecodeFailureReported ==
  (/\ last.op = "onmessage"
   /\ \/ log[Len(log)].out = "decodeError"
      \/ (pc = "handed" /\ ~ValidSnapshot(cur.data)))
    => (Called("onError") /\ ~Called("onMessage"))

\* C4: calculateMetrics on a snapshot with an empty asks or bids sequence throws
\* and returns no bundle.
C4_EmptyBookThrows ==
  (/\ calcOut # <<>>
   /\ calcIn[1].params.orderbook.fields = {"asks", "bids"}
   /\ \/ calcIn[1].params.orderbook.asks = <<>>
      \/ calcIn[1].params.orderbook.bids = <<>>)
    => (calcOut[1].threw /\ calcOut[1].ret = <<>>)

\* C4 witness: the call was made on a snapshot with asks and no bids.
C4_Witness ==
  /\ calcOut # <<>>
  /\ calcIn[1].params.orderbook.fields = {"asks", "bids"}
  /\ calcIn[1].params.orderbook.asks # <<>>
  /\ calcIn[1].params.orderbook.bids = <<>>
  /\ calcOut[1].threw

\* C5 (as claimed): every snapshot the onmessage handler hands to onMessage, and
\* so to calculateMetrics, has ascending asks, descending bids and is not crossed.
C5_OnlyValidSnapshotsHanded == pc = "handed" => ValidSnapshot(cur.data)

\* C6: message events reach onMessage only from the transport the manager
\* holds, so none does once disconnect() has dropped and closed it; and while a
\* tick is handed to handleWebSocketMessage no teardown happens: the next
\* handler step is the one that completes the tick and stores its snapshot.
C6_TeardownStopsDelivery ==
  [][/\ \A s \in Socks : OnMessageEvent(s) => (socket = s /\ closeCalls[s] = 0)
     /\ pc = "handed" =>
          /\ UNCHANGED <<socket, readyState, closeCalls>>
          /\ pc' = "idle" =>
               /\ orderbookData' = <<cur.data>>
               /\ latency' = cur.processingTime
               /\ ~BestPriceReadThrows(cur.data) =>
                    \E r \in Randoms :
                      results' = <<MetricsBundle(TickParams(cur.data), r)>>]_vars

\* C6 witness: disconnect() was called on a transport that had delivered a
\* tick and still has a received message pending, which is never dispatched.
C6_Witness ==
  /\ last.op = "disconnect"
  /\ last.sock # NoSocket
  /\ socket = NoSocket
  /\ readyState[last.sock] = "CLOSING"
  /\ inbox[last.sock] # <<>>
  /\ \E i \in 1..Len(log) : log[i].sock = last.sock /\ log[i].out = "stored"

\* The ticks of the log that are handed and not finished.
InFlight == {i \in 1..Len(log) : log[i].out = "handed"}

\* C7: the ticks of a transport are dispatched in arrival order, ahead of all
\* its pending messages; at most one tick is in flight, the last one
\* dispatched, and only while the handler runs; and the step that completes a
\* tick whose calculateMetrics returns stores the bundle of that tick's snapshot.
C7_InOrderOneAtATime ==
  /\ [](/\ \A i, j \in 1..Len(log) :
             (i < j /\ log[i].sock = log[j].sock) => log[i].n < log[j].n
        /\ \A s \in Socks : \A k \in 1..Len(inbox[s]) :
             /\ \A i \in 1..Len(log) : log[i].sock = s => log[i].n < inbox[s][k].n
             /\ \A m \in 1..Len(inbox[s]) : k < m => inbox[s][k].n < inbox[s][m].n
        /\ Cardinality(InFlight) <= 1
        /\ (pc = "idle") <=> (InFlight = {})
        /\ pc = "handed" => (InFlight = {Len(log)} /\ cur.n = log[Len(log)].n))
  /\ [][(pc = "handed" /\ pc' = "idle" /\ ~BestPriceReadThrows(cur.data)) =>
          /\ \E r \in Randoms : results' = <<MetricsBundle(TickParams(cur.data), r)>>
          /\ orderbookData' = <<cur.data>>
          /\ log'[Len(log)].out = "stored"]_vars

\* C7 witness: two ticks of one transport were handled one after the other
\* and the stored bundle is the one of the second snapshot.
C7_Witness ==
  /\ pc = "idle"
  /\ Len(log) = 2
  /\ log[1].sock = log[2].sock
  /\ log[1].out = "stored"
  /\ log[2].out = "stored"
  /\ orderbookData = <<BookCrossed>>
  /\ \E r \in Randoms : results = <<MetricsBundle(TickParams(BookCrossed), r)>>
  /\ \A r \in Randoms : results # <<MetricsBundle(TickParams(BookA), r)>>

\* C8: isConnected() is true exactly when the manager holds a transport that is
\* open and on which close() was never called; it is false before any
\* connect(), while the held transport is connecting, closing or closed, and
\* after disconnect().
C8_IsConnectedOnlyWhenOpen ==
  /\ isConnected <=>
       (/\ socket \in 1..created
        /\ readyState[socket] = "OPEN"
        /\ closeCalls[socket] = 0)
  /\ connects = 0 => ~isConnected
  /\ (socket # NoSocket /\ readyState[socket] \in {"CONNECTING", "CLOSING", "CLOSED"})
       => ~isConnected
  /\ last.op = "disconnect" => ~isConnected

\* C8 witness: the transport that replaced an earlier one is open.
C8_Witness ==
  /\ isConnected
  /\ socket = 2
  /\ readyState[1] \in {"CLOSING", "CLOSED"}

\* C9: disconnect() without a held transport changes nothing of the manager or
\* the transports, and a disconnect() that follows a disconnect() changes
\* nothing either: no second close() reaches the transport.
C9_DisconnectIdempotent ==
  [][Disconnect =>
       /\ (socket = NoSocket \/ last.op = "disconnect") =>
            UNCHANGED <<managerVars, inbox, arrived, pc, cur, uiVars, log>>
       /\ socket' = NoSocket
       /\ \A s \in Socks : closeCalls'[s] <= closeCalls[s] + 1
       /\ last.op = "disconnect" => closeCalls' = closeCalls]_vars

\* C9 witness: a second disconnect() in a row has run on a manager whose
\* transport the first one closed.
C9_Witness ==
  /\ last.op = "disconnect"
  /\ last.sock = NoSocket
  /\ created = 1
  /\ closeCalls[1] = 1
  /\ socket = NoSocket

\* C10 (as claimed): for a snapshot with non-empty sides and non-negative
\* prices and sizes, and order parameters of the documented domains,
\* calculateMetrics returns a bundle whose numeric fields are all finite.
C10_BundleAlwaysFinite ==
  (/\ calcOut # <<>>
   /\ calcIn[1].params.orderbook.fields = {"asks", "bids"}
   /\ calcIn[1].params.orderbook.asks # <<>>
   /\ calcIn[1].params.orderbook.bids # <<>>
   /\ NonNegativeLevels(calcIn[1].params.orderbook.asks)
   /\ NonNegativeLevels(calcIn[1].params.orderbook.bids)
   /\ calcIn[1].params.feeTier \in FeeRateTiers)
    => (/\ ~calcOut[1].threw
        /\ AllFinite(calcOut[1].ret[1]))

\* C11 (as claimed): when handleWebSocketMessage has stored the bundle of a
\* tick, its internalLatency is the processingTime the onmessage handler
\* measured for that tick (the value stored in latency).
C11_LatencyPassedThrough ==
  (last.op = "handleWebSocketMessage" /\ Called("setResults"))
    => results[1].internalLatency = latency

\* The six cost fields of a bundle.
CostFields(b) ==
  <<b.slippage, b.fees, b.marketImpact, b.netCost, b.makerProportion, b.takerProportion>>

\* C12: a call of calculateMetrics leaves the snapshot and the parameters it
\* was given unchanged, and a further call with the same snapshot and
\* parameters throws if and only if the earlier one threw and otherwise returns
\* the same slippage, fees, marketImpact, netCost, makerProportion and
\* takerProportion, whatever Math.random() returns on either call.
C12_CostFieldsDeterministic ==
  [][(CallCalculateMetrics \/ CallCalculateMetricsAgain) =>
       /\ calcIn' = calcIn
       /\ calcOut # <<>> =>
            /\ calcOut'[1].threw = calcOut[1].threw
            /\ ~calcOut[1].threw =>
                 CostFields(calcOut'[1].ret[1]) = CostFields(calcOut[1].ret[1])
       /\ ~calcOut'[1].threw =>
            \A r \in Randoms :
              CostFields(calcOut'[1].ret[1]) = CostFields(MetricsBundle(calcIn[1].params, r))]_vars

\* C12 witness: the deep book was computed a second time with another value of
\* Math.random(): the bundle carries a latency other than the first call's.
C12_Witness ==
  /\ calcOut # <<>>
  /\ calcIn[1].params.orderbook = BookDeep
  /\ ~calcOut[1].threw
  /\ calcOut[1].ret[1].internalLatency # FAdd(FMul(calcIn[1].random, Num(30)), Num(10))

\* The documented input domain of calculateMetrics: a snapshot with both
\* sides non-empty and finite non-negative prices and sizes, quantity > 0,
\* volatility in [0, 1], order type market or limit.
ValidInput(p) ==
  /\ p.orderbook.fields = {"asks", "bids"}
  /\ p.orderbook.asks # <<>>
  /\ p.orderbook.bids # <<>>
  /\ NonNegativeLevels(p.orderbook.asks)
  /\ NonNegativeLevels(p.orderbook.bids)
  /\ IsFinite(p.quantity) /\ p.quantity.v > 0
  /\ IsFinite(p.volatility) /\ p.volatility.v >= 0 /\ p.volatility.v <= Scale
  /\ p.orderType \in {"market", "limit"}

\* C13: for every valid input calculateMetrics returns a bundle whose
\* makerProportion and takerProportion are finite and add up to exactly 100.
C13_ProportionsSumTo100 ==
  (calcOut # <<>> /\ ValidInput(calcIn[1].params)) =>
    /\ ~calcOut[1].threw
    /\ IsFinite(calcOut[1].ret[1].makerProportion)
    /\ IsFinite(calcOut[1].ret[1].takerProportion)
    /\ FAdd(calcOut[1].ret[1].makerProportion, calcOut[1].ret[1].takerProportion) = Num(100)

\* C13 witness: a valid input at volatility above 0.8 whose bundle splits the
\* order into a maker share and a taker share that are both positive.
C13_Witness ==
  /\ calcOut # <<>>
  /\ ValidInput(calcIn[1].params)
  /\ FGt(calcIn[1].params.volatility, Fin(8000))
  /\ ~calcOut[1].threw
  /\ FGt(calcOut[1].ret[1].makerProportion, Num(0))
  /\ FGt(calcOut[1].ret[1].takerProportion, Num(0))

\* C14: for every valid input makerProportion and takerProportion both lie in
\* [0, 100], also when volatility > 0.8 adds 0.15 to the taker ratio.
C14_ProportionsInRange ==
  (calcOut # <<>> /\ ValidInput(calcIn[1].params)) =>
    /\ ~calcOut[1].threw
    /\ FGe(calcOut[1].ret[1].takerProportion, Num(0))
    /\ FGe(Num(100), calcOut[1].ret[1].takerProportion)
    /\ FGe(calcOut[1].ret[1].makerProportion, Num(0))
    /\ FGe(Num(100), calcOut[1].ret[1].makerProportion)

\* C14 witness: a valid market order at volatility above 0.8, where the ratio
\* before the addition is already above 0.85, is reported as 100% taker.
C14_Witness ==
  /\ calcOut # <<>>
  /\ ValidInput(calcIn[1].params)
  /\ calcIn[1].params.orderType = "market"
  /\ FGt(calcIn[1].params.volatility, Fin(8000))
  /\ ~calcOut[1].threw
  /\ calcOut[1].ret[1].takerProportion = Num(100)
  /\ calcOut[1].ret[1].makerProportion = Num(0)

\* C15 (as claimed): the fee of a returned bundle is quantity times 0.0010 for
\* tier1, 0.0008 for tier2, 0.0005 for tier3, and quantity times 0.0010 for
\* every other fee-tier string; quantity 1000 costs 1 at tier1 and 0.5 at tier3.
C15_FeesFollowTierTable ==
  (calcOut # <<>> /\ ~calcOut[1].threw) =>
    LET p == calcIn[1].params
        rate == CASE p.feeTier = "tier2" -> Fin(8)
                  [] p.feeTier = "tier3" -> Fin(5)
                  [] OTHER -> Fin(10)
        fees == calcOut[1].ret[1].fees
    IN  /\ fees = FMul(p.quantity, rate)
        /\ (p.quantity = Num(1000) /\ p.feeTier = "tier1") => fees = Num(1)
        /\ (p.quantity = Num(1000) /\ p.feeTier = "tier3") => fees = Fin(5000)

\* C16 (as claimed): for a snapshot with non-empty sides whose sizes add up to
\* zero, calculateMetrics returns a bundle whose marketImpact is finite.
C16_ZeroDepthImpactFinite ==
  (/\ calcOut # <<>>
   /\ calcIn[1].params.orderbook.fields = {"asks", "bids"}
   /\ calcIn[1].params.orderbook.asks # <<>>
   /\ calcIn[1].params.orderbook.bids # <<>>
   /\ FAdd(SumSize(calcIn[1].params.orderbook.bids, Len(calcIn[1].params.orderbook.bids)),
           SumSize(calcIn[1].params.orderbook.asks, Len(calcIn[1].params.orderbook.asks)))
        = Num(0))
    => (/\ ~calcOut[1].threw
        /\ IsFinite(calcOut[1].ret[1].marketImpact))

\* C17: a transport is created only by a connect() call, one per call; the
\* error and close handlers create none and do not touch the handle the
\* manager holds; a close event is surfaced through onClose, a transport error
\* through onError and onClose, and a connect() whose constructor throws through
\* onError.
C17_NoAutomaticRetry ==
  [][/\ created' # created =>
          /\ \E url \in Urls : Connect(url)
          /\ created' = created + 1
          /\ last'.op = "connect"
     /\ \A s \in Socks :
          /\ (CloseEvent(s) \/ TransportFail(s)) =>
               /\ created' = created
               /\ socket' = socket
               /\ connects' = connects
               /\ \A t \in Socks : t # s => readyState'[t] = readyState[t]
               /\ Called("onClose")'
          /\ TransportFail(s) => Called("onError")'
     /\ \A url \in Urls :
          (Connect(url) /\ ConstructorThrows(url)) =>
            (created' = created /\ Called("onError")')]_vars

\* C17 witness: the transport the manager holds has failed while the caller
\* could still connect again: onError and onClose were called and there is
\* still only that one transport, closed.
C17_Witness ==
  /\ last.op = "onerror"
  /\ Called("onError")
  /\ Called("onClose")
  /\ last.sock = socket
  /\ connects = 1
  /\ created = 1
  /\ readyState[1] = "CLOSED"

\* C18 (as claimed): whenever a handler has delivered onClose to the caller,
\* the manager holds no open transport: isConnected() is false.
C18_OnCloseOnlyFromCurrent ==
  (last.op \in {"onclose", "onerror"} /\ Called("onClose")) => ~isConnected

\* C19 (as claimed): the step of handleWebSocketMessage that stores the result
\* of a tick stores calculateMetrics of the tick's snapshot with the quantity,
\* order type, volatility and fee tier the component holds at that moment.
C19_TickUsesCurrentParams ==
  [][(pc = "handed" /\ pc' = "idle" /\ ~BestPriceReadThrows(cur.data)) =>
       \E r \in Randoms :
         results' = <<MetricsBundle([orderbook |-> cur.data,
                                     quantity |-> params.quantity,
                                     orderType |-> params.orderType,
                                     volatility |-> params.volatility,
                                     feeTier |-> params.feeTier,
                                     exchange |-> params.exchange], r)>>]_vars

\* C20 (as claimed): results is null or the bundle calculateMetrics returns for
\* the snapshot in orderbookData, for some value of Math.random().
C20_ResultsBelongToSnapshot ==
  \/ results = <<>>
  \/ /\ orderbookData # <<>>
     /\ ~BestPriceReadThrows(orderbookData[1])
     /\ \E r \in Randoms : results = <<MetricsBundle(TickParams(orderbookData[1]), r)>>

=============================================================================
